---- MODULE Spec2Model ----
(***************************************************************************)
(* Image-frame crop tool: the geometry engine of lib/aspect-ratio-utils.ts, *)
(* the zustand store of store/use-image-frame-store.ts, the Fabric.js      *)
(* utilities and ImageFrame class, the useImageFrame hook and the          *)
(* ImageCrop panel.                                                        *)
(*                                                                         *)
(* Numbers are exact rationals <<numerator, denominator>> in lowest terms  *)
(* with a positive denominator; the JavaScript doubles of the source are   *)
(* read as the reals they approximate, so "==" below is the equality the   *)
(* specification states "within floating-point tolerance".                 *)
(***************************************************************************)
EXTENDS Integers, Sequences, FiniteSets, TLC

VARIABLES config, isResizing, activeHandle, isEditMode, steps, last, call, ret

\* two runs of the store's resize gesture, compared with each other
VARIABLES runA, runB, gesture

\* the useImageFrame hook
VARIABLES hook, hookDrags, hookLast

\* an object of the Fabric.js ImageFrame class
VARIABLES imageFrame, frameLast

\* the Fabric.js image selected in the ImageCrop panel and the utilities' handlers
VARIABLES activeObj, panel, dblClick, panning, firstPressAge, cropSteps, cropLast

pairVars == <<runA, runB, gesture>>

hookVars == <<hook, hookDrags, hookLast>>

classVars == <<imageFrame, frameLast>>

cropVars == <<activeObj, panel, dblClick, panning, firstPressAge, cropSteps, cropLast>>

vars == <<config, isResizing, activeHandle, isEditMode, steps, last, call, ret,
          pairVars, hookVars, classVars, cropVars>>

storeVars == <<config, isResizing, activeHandle, isEditMode, steps, last>>

geomVars == <<call, ret>>

(***************************************************************************)
(* Rational arithmetic                                                     *)
(***************************************************************************)
RECURSIVE GCD(_, _)
GCD(a, b) ==
  IF b = 0 THEN a ELSE GCD(b, a % b)

IAbs(n) ==
  IF n < 0 THEN -n ELSE n

Sgn(n) ==
  IF n < 0 THEN -1 ELSE IF n = 0 THEN 0 ELSE 1

\* n/d in lowest terms; a zero denominator gives the IEEE specials
\* <<1,0>> (Infinity), <<-1,0>> (-Infinity), <<0,0>> (NaN).
Norm(n, d) ==
  IF d = 0 THEN <<Sgn(n), 0>>
  ELSE LET g == GCD(IAbs(n), IAbs(d))
           s == Sgn(d)
       IN  <<(s * n) \div g, (s * d) \div g>>

N(n) ==
  <<n, 1>>

Neg(a) ==
  <<-a[1], a[2]>>

\* Infinity + Infinity = Infinity, Infinity + -Infinity = NaN
Add(a, b) ==
  IF a[2] = 0 /\ b[2] = 0
  THEN (IF a = b THEN a ELSE <<0, 0>>)
  ELSE Norm(a[1] * b[2] + b[1] * a[2], a[2] * b[2])

Sub(a, b) ==
  Add(a, Neg(b))

Mul(a, b) ==
  Norm(a[1] * b[1], a[2] * b[2])

Div(a, b) ==
  Norm(a[1] * b[2], a[2] * b[1])

IsNaN(a) ==
  a = <<0, 0>>

\* a number that is neither NaN nor an infinity
IsFinite(a) ==
  a[2] # 0

\* comparisons with NaN are false
Lt(a, b) ==
  IF IsNaN(a) \/ IsNaN(b) THEN FALSE
  ELSE IF a[2] = 0 /\ b[2] = 0 THEN a[1] < b[1]
  ELSE a[1] * b[2] < b[1] * a[2]

Le(a, b) ==
  IF IsNaN(a) \/ IsNaN(b) THEN FALSE
  ELSE IF a[2] = 0 /\ b[2] = 0 THEN a[1] <= b[1]
  ELSE a[1] * b[2] <= b[1] * a[2]

Gt(a, b) ==
  Lt(b, a)

Ge(a, b) ==
  Le(b, a)

\* Math.abs
MathAbs(a) ==
  <<IAbs(a[1]), a[2]>>

\* Math.max, NaN if either argument is NaN
MathMax(a, b) ==
  IF IsNaN(a) \/ IsNaN(b) THEN <<0, 0>>
  ELSE IF Lt(a, b) THEN b ELSE a

\* Math.min, NaN if either argument is NaN
MathMin(a, b) ==
  IF IsNaN(a) \/ IsNaN(b) THEN <<0, 0>>
  ELSE IF Lt(b, a) THEN b ELSE a

(***************************************************************************)
(* lib/aspect-ratio-utils.ts                                               *)
(***************************************************************************)
ASPECT_RATIO_OPTIONS ==
  << [value |-> "4:3",  ratio |-> Norm(4, 3)],
     [value |-> "16:9", ratio |-> Norm(16, 9)],
     [value |-> "1:1",  ratio |-> N(1)],
     [value |-> "3:2",  ratio |-> Norm(3, 2)],
     [value |-> "2:3",  ratio |-> Norm(2, 3)],
     [value |-> "9:16", ratio |-> Norm(9, 16)] >>

\* type AspectRatio
AspectRatio ==
  {"1:1", "4:3", "16:9", "3:2", "2:3", "9:16"}

DEFAULT_ASPECT_RATIO ==
  "4:3"

\* ResizeHandle["position"]
Corners ==
  {"top-left", "top-right", "bottom-left", "bottom-right"}

getAspectRatioValue(aspectRatio) ==
  LET found == {i \in DOMAIN ASPECT_RATIO_OPTIONS :
                  ASPECT_RATIO_OPTIONS[i].value = aspectRatio}
  IN  IF found # {}
      THEN ASPECT_RATIO_OPTIONS[CHOOSE i \in found : \A j \in found : i <= j].ratio
      ELSE Norm(4, 3)

\* calculateFrameDimensions with the height branch keeping the old width
calculateFrameDimensions_staleWidth(aspectRatio, maxWidth, maxHeight) ==
  LET ratio  == getAspectRatioValue(aspectRatio)
      height == Div(maxWidth, ratio)
  IN  IF Gt(height, maxHeight)
      THEN [width |-> maxWidth, height |-> maxHeight]
      ELSE [width |-> maxWidth, height |-> height]

\* calculateFrameDimensions without the check against maxHeight
calculateFrameDimensions_noHeightCheck(aspectRatio, maxWidth, maxHeight) ==
  LET ratio == getAspectRatioValue(aspectRatio)
  IN  [width |-> maxWidth, height |-> Div(maxWidth, ratio)]

calculateFrameDimensions(aspectRatio, maxWidth, maxHeight) ==
  LET ratio  == getAspectRatioValue(aspectRatio)
      width  == maxWidth
      height == Div(width, ratio)
  IN  IF Gt(height, maxHeight)
      THEN [width |-> Mul(maxHeight, ratio), height |-> maxHeight]
      ELSE [width |-> width, height |-> height]

MIN_WIDTH ==
  100

MIN_HEIGHT ==
  100

\* calculateProportionalResize without the recalculation after the clamp
calculateProportionalResize_noRecalc(currentDimensions, delta, corner, aspectRatio) ==
  LET ratio == getAspectRatioValue(aspectRatio)
      w0 == IF corner \in {"top-left", "bottom-left"}
            THEN Sub(currentDimensions.width, delta.x)
            ELSE Add(currentDimensions.width, delta.x)
      h0 == IF corner \in {"top-left", "top-right"}
            THEN Sub(currentDimensions.height, delta.y)
            ELSE Add(currentDimensions.height, delta.y)
      widthDrives == Gt(MathAbs(Sub(w0, currentDimensions.width)),
                        MathAbs(Sub(h0, currentDimensions.height)))
      w1 == IF widthDrives THEN w0 ELSE Mul(h0, ratio)
      h1 == IF widthDrives THEN Div(w0, ratio) ELSE h0
  IN  [width |-> MathMax(w1, N(MIN_WIDTH)), height |-> MathMax(h1, N(MIN_HEIGHT))]

\* calculateProportionalResize testing the height clamp before the width clamp
calculateProportionalResize_heightFirst(currentDimensions, delta, corner, aspectRatio) ==
  LET ratio == getAspectRatioValue(aspectRatio)
      w0 == IF corner \in {"top-left", "bottom-left"}
            THEN Sub(currentDimensions.width, delta.x)
            ELSE Add(currentDimensions.width, delta.x)
      h0 == IF corner \in {"top-left", "top-right"}
            THEN Sub(currentDimensions.height, delta.y)
            ELSE Add(currentDimensions.height, delta.y)
      widthDrives == Gt(MathAbs(Sub(w0, currentDimensions.width)),
                        MathAbs(Sub(h0, currentDimensions.height)))
      w2 == MathMax(IF widthDrives THEN w0 ELSE Mul(h0, ratio), N(MIN_WIDTH))
      h2 == MathMax(IF widthDrives THEN Div(w0, ratio) ELSE h0, N(MIN_HEIGHT))
  IN  IF h2 = N(MIN_HEIGHT)
      THEN [width |-> Mul(N(MIN_HEIGHT), ratio), height |-> h2]
      ELSE IF w2 = N(MIN_WIDTH)
           THEN [width |-> w2, height |-> Div(N(MIN_WIDTH), ratio)]
           ELSE [width |-> w2, height |-> h2]

calculateProportionalResize(currentDimensions, delta, corner, aspectRatio) ==
  LET ratio == getAspectRatioValue(aspectRatio)
      minWidth  == N(MIN_WIDTH)
      minHeight == N(MIN_HEIGHT)
      w0 == IF corner \in {"top-left", "bottom-left"}
            THEN Sub(currentDimensions.width, delta.x)
            ELSE Add(currentDimensions.width, delta.x)
      h0 == IF corner \in {"top-left", "top-right"}
            THEN Sub(currentDimensions.height, delta.y)
            ELSE Add(currentDimensions.height, delta.y)
      widthBasedHeight == Div(w0, ratio)
      heightBasedWidth == Mul(h0, ratio)
      widthDrives == Gt(MathAbs(Sub(w0, currentDimensions.width)),
                        MathAbs(Sub(h0, currentDimensions.height)))
      w1 == IF widthDrives THEN w0 ELSE heightBasedWidth
      h1 == IF widthDrives THEN widthBasedHeight ELSE h0
      w2 == MathMax(w1, minWidth)
      h2 == MathMax(h1, minHeight)
  IN  IF w2 = minWidth
      THEN [width |-> w2, height |-> Div(minWidth, ratio)]
      ELSE IF h2 = minHeight
           THEN [width |-> Mul(minHeight, ratio), height |-> h2]
           ELSE [width |-> w2, height |-> h2]

\* calculatePositionAdjustment with the top-left signs dropped
calculatePositionAdjustment_topLeftSign(originalDimensions, newDimensions, corner) ==
  LET widthDiff  == Sub(newDimensions.width, originalDimensions.width)
      heightDiff == Sub(newDimensions.height, originalDimensions.height)
  IN  CASE corner = "top-left"     -> [x |-> widthDiff, y |-> heightDiff]
        [] corner = "top-right"    -> [x |-> N(0), y |-> Neg(heightDiff)]
        [] corner = "bottom-left"  -> [x |-> Neg(widthDiff), y |-> N(0)]
        [] corner = "bottom-right" -> [x |-> N(0), y |-> N(0)]

calculatePositionAdjustment(originalDimensions, newDimensions, corner) ==
  LET widthDiff  == Sub(newDimensions.width, originalDimensions.width)
      heightDiff == Sub(newDimensions.height, originalDimensions.height)
  IN  CASE corner = "top-left"     -> [x |-> Neg(widthDiff), y |-> Neg(heightDiff)]
        [] corner = "top-right"    -> [x |-> N(0), y |-> Neg(heightDiff)]
        [] corner = "bottom-left"  -> [x |-> Neg(widthDiff), y |-> N(0)]
        [] corner = "bottom-right" -> [x |-> N(0), y |-> N(0)]

\* calculateContentScale taking the smaller per-axis scale
calculateContentScale_min(contentDimensions, frameDimensions) ==
  LET scaleX == Div(frameDimensions.width, contentDimensions.width)
      scaleY == Div(frameDimensions.height, contentDimensions.height)
  IN  MathMin(scaleX, scaleY)

calculateContentScale(contentDimensions, frameDimensions) ==
  LET scaleX == Div(frameDimensions.width, contentDimensions.width)
      scaleY == Div(frameDimensions.height, contentDimensions.height)
  IN  MathMax(scaleX, scaleY)

\* calculateCenteredOffset with the subtraction the wrong way round
calculateCenteredOffset_flipped(contentDimensions, frameDimensions, scale) ==
  LET scaledWidth  == Mul(contentDimensions.width, scale)
      scaledHeight == Mul(contentDimensions.height, scale)
  IN  [x |-> Div(Sub(scaledWidth, frameDimensions.width), N(2)),
       y |-> Div(Sub(scaledHeight, frameDimensions.height), N(2))]

calculateCenteredOffset(contentDimensions, frameDimensions, scale) ==
  LET scaledWidth  == Mul(contentDimensions.width, scale)
      scaledHeight == Mul(contentDimensions.height, scale)
  IN  [x |-> Div(Sub(frameDimensions.width, scaledWidth), N(2)),
       y |-> Div(Sub(frameDimensions.height, scaledHeight), N(2))]

(***************************************************************************)
(* store/use-image-frame-store.ts: state and transition functions          *)
(***************************************************************************)
Dim(w, h) ==
  [width |-> N(w), height |-> N(h)]

Pt(x, y) ==
  [x |-> N(x), y |-> N(y)]

DEFAULT_CONFIG ==
  [frame         |-> Dim(400, 300),
   position      |-> Pt(0, 0),
   aspectRatio   |-> DEFAULT_ASPECT_RATIO,
   content       |-> Dim(800, 600),
   contentOffset |-> Pt(0, 0),
   contentScale  |-> N(1)]

\* activeHandle: null
null ==
  "null"

\* setAspectRatio that keeps the old position
setAspectRatio_keepPosition(cfg, aspectRatio) ==
  LET newDimensions ==
        calculateFrameDimensions(aspectRatio, cfg.frame.width,
                                 Mul(cfg.frame.width, N(2)))
      newScale  == calculateContentScale(cfg.content, newDimensions)
      newOffset == calculateCenteredOffset(cfg.content, newDimensions, newScale)
  IN  [cfg EXCEPT !.aspectRatio   = aspectRatio,
                  !.frame         = newDimensions,
                  !.contentScale  = newScale,
                  !.contentOffset = newOffset]

\* setAspectRatio with the frame width as the height bound
setAspectRatio_squareBudget(cfg, aspectRatio) ==
  LET currentCenter ==
        [x |-> Add(cfg.position.x, Div(cfg.frame.width, N(2))),
         y |-> Add(cfg.position.y, Div(cfg.frame.height, N(2)))]
      newDimensions ==
        calculateFrameDimensions(aspectRatio, cfg.frame.width, cfg.frame.width)
      newScale  == calculateContentScale(cfg.content, newDimensions)
      newOffset == calculateCenteredOffset(cfg.content, newDimensions, newScale)
      newPosition ==
        [x |-> Sub(currentCenter.x, Div(newDimensions.width, N(2))),
         y |-> Sub(currentCenter.y, Div(newDimensions.height, N(2)))]
  IN  [cfg EXCEPT !.aspectRatio   = aspectRatio,
                  !.frame         = newDimensions,
                  !.position      = newPosition,
                  !.contentScale  = newScale,
                  !.contentOffset = newOffset]

\* new config computed by setAspectRatio
setAspectRatio(cfg, aspectRatio) ==
  LET currentCenter ==
        [x |-> Add(cfg.position.x, Div(cfg.frame.width, N(2))),
         y |-> Add(cfg.position.y, Div(cfg.frame.height, N(2)))]
      newDimensions ==
        calculateFrameDimensions(aspectRatio, cfg.frame.width,
                                 Mul(cfg.frame.width, N(2)))
      newScale  == calculateContentScale(cfg.content, newDimensions)
      newOffset == calculateCenteredOffset(cfg.content, newDimensions, newScale)
      newPosition ==
        [x |-> Sub(currentCenter.x, Div(newDimensions.width, N(2))),
         y |-> Sub(currentCenter.y, Div(newDimensions.height, N(2)))]
  IN  [cfg EXCEPT !.aspectRatio   = aspectRatio,
                  !.frame         = newDimensions,
                  !.position      = newPosition,
                  !.contentScale  = newScale,
                  !.contentOffset = newOffset]

\* updateResize that keeps the old content scale
updateResize_staleScale(cfg, handle, delta) ==
  LET newDimensions ==
        calculateProportionalResize(cfg.frame, delta, handle, cfg.aspectRatio)
      positionAdjustment ==
        calculatePositionAdjustment(cfg.frame, newDimensions, handle)
      newOffset ==
        calculateCenteredOffset(cfg.content, newDimensions, cfg.contentScale)
  IN  [cfg EXCEPT !.frame         = newDimensions,
                  !.position      = [x |-> Add(cfg.position.x, positionAdjustment.x),
                                     y |-> Add(cfg.position.y, positionAdjustment.y)],
                  !.contentOffset = newOffset]

\* new config computed by updateResize when a handle is active
updateResize(cfg, handle, delta) ==
  LET originalDimensions == cfg.frame
      newDimensions ==
        calculateProportionalResize(cfg.frame, delta, handle, cfg.aspectRatio)
      positionAdjustment ==
        calculatePositionAdjustment(originalDimensions, newDimensions, handle)
      newScale  == calculateContentScale(cfg.content, newDimensions)
      newOffset == calculateCenteredOffset(cfg.content, newDimensions, newScale)
  IN  [cfg EXCEPT !.frame         = newDimensions,
                  !.position      = [x |-> Add(cfg.position.x, positionAdjustment.x),
                                     y |-> Add(cfg.position.y, positionAdjustment.y)],
                  !.contentScale  = newScale,
                  !.contentOffset = newOffset]

\* new config computed by updateContentPosition
updateContentPosition(cfg, offset) ==
  [cfg EXCEPT !.contentOffset = offset]

\* updateContentScale without the coverage floor
updateContentScale_noFloor(cfg, scale) ==
  [cfg EXCEPT !.contentScale = scale]

\* new config computed by updateContentScale
updateContentScale(cfg, scale) ==
  LET minScale == calculateContentScale(cfg.content, cfg.frame)
      newScale == MathMax(scale, minScale)
  IN  [cfg EXCEPT !.contentScale = newScale]

\* initializeFrame that sizes the frame from the container alone
initializeFrame_containerOnly(imageDimensions, containerSize) ==
  LET frameDimensions ==
        calculateFrameDimensions(
          DEFAULT_ASPECT_RATIO,
          Mul(containerSize.width, Norm(8, 10)),
          Mul(containerSize.height, Norm(8, 10)))
      position ==
        [x |-> Div(Sub(containerSize.width, frameDimensions.width), N(2)),
         y |-> Div(Sub(containerSize.height, frameDimensions.height), N(2))]
      contentScale  == calculateContentScale(imageDimensions, frameDimensions)
      contentOffset ==
        calculateCenteredOffset(imageDimensions, frameDimensions, contentScale)
  IN  [frame         |-> frameDimensions,
       position      |-> position,
       aspectRatio   |-> DEFAULT_ASPECT_RATIO,
       content       |-> imageDimensions,
       contentOffset |-> contentOffset,
       contentScale  |-> contentScale]

\* new config computed by initializeFrame
initializeFrame(imageDimensions, containerSize) ==
  LET frameDimensions ==
        calculateFrameDimensions(
          DEFAULT_ASPECT_RATIO,
          MathMin(Mul(containerSize.width, Norm(8, 10)), imageDimensions.width),
          MathMin(Mul(containerSize.height, Norm(8, 10)), imageDimensions.height))
      position ==
        [x |-> Div(Sub(containerSize.width, frameDimensions.width), N(2)),
         y |-> Div(Sub(containerSize.height, frameDimensions.height), N(2))]
      contentScale  == calculateContentScale(imageDimensions, frameDimensions)
      contentOffset ==
        calculateCenteredOffset(imageDimensions, frameDimensions, contentScale)
  IN  [frame         |-> frameDimensions,
       position      |-> position,
       aspectRatio   |-> DEFAULT_ASPECT_RATIO,
       content       |-> imageDimensions,
       contentOffset |-> contentOffset,
       contentScale  |-> contentScale]

(***************************************************************************)
(* Bounds and input sets                                                   *)
(***************************************************************************)
\* number of geometry-changing store calls in one behaviour
MaxSteps ==
  2

\* pointer deltas handed to updateResize
Deltas ==
  { [x |-> N(50),   y |-> N(30)],
    [x |-> N(-350), y |-> N(0)],
    [x |-> N(-280), y |-> N(0)],
    [x |-> N(350),  y |-> N(250)],
    [x |-> N(0),    y |-> N(0)] }

\* offsets handed to updateContentPosition
Offsets ==
  { Pt(0, 0), Pt(-40, -20), Pt(25, 10) }

\* scales handed to updateContentScale
Scales ==
  { Norm(3, 10), N(2) }

\* (image, container) sizes handed to initializeFrame, all positive
InitArgs ==
  { <<Dim(1600, 1200), Dim(1000, 800)>>,
    <<Dim(1600, 1200), Dim(600, 500)>>,
    <<Dim(400, 300),   Dim(600, 500)>>,
    <<Dim(300, 400),   Dim(1000, 800)>>,
    <<Dim(80, 60),     Dim(600, 500)>> }

\* sizes, in units of 50, handed to calculateFrameDimensions
MaxSizeK ==
  8

GeomSizes ==
  { N(50 * k) : k \in 1..MaxSizeK } \cup { N(1), N(90), N(120), N(640) }

\* pointer deltas, in units of 70, handed to calculateProportionalResize
MaxDeltaK ==
  5

GeomDeltaValues ==
  { N(70 * k) : k \in (-MaxDeltaK)..MaxDeltaK } \cup { N(30), N(50), N(-300) }

\* current dimensions handed to calculateProportionalResize, on and off ratio
GeomCurrents ==
  { Dim(400, 300), Dim(300, 400), Dim(100, 100), Dim(120, 90),
    Dim(80, 60), Dim(250, 100) }

(***************************************************************************)
(* Store: the state after create() and one action per store method.        *)
(* `last` is a history variable: the method called last, its arguments     *)
(* and the state it was called in.                                         *)
(***************************************************************************)
Snapshot ==
  [config |-> config, isResizing |-> isResizing,
   activeHandle |-> activeHandle, isEditMode |-> isEditMode]

NoCall ==
  [fn |-> "none"]

NoRet ==
  [done |-> FALSE, value |-> [width |-> N(0), height |-> N(0)],
   ratio |-> N(0), error |-> "none"]

\* an optional value: absent, or present with a value
None ==
  <<>>

Some(v) ==
  <<v>>

\* JavaScript's undefined, for optional numeric arguments and options
undefined ==
  <<>>

\* a || b on numbers: a unless it is undefined, 0 or NaN
OrElse(a, b) ==
  IF a = undefined \/ a = N(0) \/ IsNaN(a) THEN b ELSE a

\* the part of the store a resize gesture reads and writes
StoreState(cfg) ==
  [config |-> cfg, isResizing |-> FALSE, activeHandle |-> null]

\* no gesture chosen and no run started
PairAtRest ==
  /\ runA = [store |-> <<>>, pc |-> 0]
  /\ runB = [store |-> <<>>, pc |-> 0]
  /\ gesture = [corner |-> null, deltas |-> <<>>, start |-> <<>>]

\* state of the hook after its first render
useImageFrame ==
  [isEditMode       |-> FALSE,
   contentTransform |-> [x |-> N(0), y |-> N(0), scale |-> N(1)],
   isDragging       |-> FALSE,
   isScaling        |-> FALSE,
   dragStartPos     |-> None,
   initialTransform |-> None]

HookAtRest ==
  /\ hook = useImageFrame
  /\ hookDrags = 0
  /\ hookLast = [op |-> "render", args |-> <<>>, pre |-> <<>>]

\* new ImageFrame(element, options) for an element of the given size
ImageFrame(width, height, options) ==
  [width          |-> width,
   height         |-> height,
   frameWidth     |-> OrElse(options.frameWidth, OrElse(width, N(200))),
   frameHeight    |-> OrElse(options.frameHeight, OrElse(height, N(200))),
   aspectRatio    |-> OrElse(options.aspectRatio, Div(N(4), N(3))),
   isEditMode     |-> FALSE,
   contentOffsetX |-> N(0),
   contentOffsetY |-> N(0),
   contentScale   |-> N(1)]

NoOptions ==
  [frameWidth |-> undefined, frameHeight |-> undefined, aspectRatio |-> undefined]

ClassAtRest ==
  /\ imageFrame = ImageFrame(N(400), N(300), NoOptions)
  /\ frameLast = [op |-> "new", args |-> <<>>, pre |-> <<>>]

\* a loaded fabric.Image of the given size, before the utilities touch it
\* (_editMode is read through !!, so "not set" is FALSE)
FabricImage(width, height) ==
  [width |-> width, height |-> height, scaleX |-> N(1), scaleY |-> N(1),
   _editMode |-> FALSE, _frameConfig |-> None, _contentTransform |-> None]

\* ImageCrop's state after its first render
ImageCrop ==
  [isCropMode |-> FALSE, isEditModeActive |-> FALSE]

\* closure variables of setupDoubleClickHandler; clickTimer is the time in
\* ms left on the pending timeout, 0 when none is pending
DoubleClickClosure ==
  [clickCount |-> 0, clickTimer |-> 0]

\* closure variables of setupContentPanning
PanningClosure ==
  [isDragging |-> FALSE, lastX |-> N(0), lastY |-> N(0)]

CropSnapshot ==
  [image |-> activeObj, panel |-> panel, dblClick |-> dblClick,
   panning |-> panning, firstPressAge |-> firstPressAge]

CropStart(img) ==
  /\ activeObj = img
  /\ panel = ImageCrop
  /\ dblClick = DoubleClickClosure
  /\ panning = PanningClosure
  /\ firstPressAge = -1
  /\ cropSteps = 0
  /\ cropLast = [op |-> "mount", args |-> <<>>, detected |-> FALSE,
                 pre |-> <<>>]

CropAtRest ==
  CropStart(FabricImage(N(400), N(300)))

StoreInit ==
  /\ config = DEFAULT_CONFIG
  /\ isResizing = FALSE
  /\ activeHandle = null
  /\ isEditMode = FALSE
  /\ steps = 0
  /\ last = [op |-> "create", args |-> <<>>, pre |-> <<>>]

Init ==
  /\ StoreInit
  /\ call = NoCall
  /\ ret = NoRet
  /\ PairAtRest
  /\ HookAtRest
  /\ ClassAtRest
  /\ CropAtRest

SetAspectRatio(aspectRatio) ==
  /\ steps < MaxSteps
  /\ config' = setAspectRatio(config, aspectRatio)
  /\ steps' = steps + 1
  /\ last' = [op |-> "setAspectRatio", args |-> <<aspectRatio>>, pre |-> Snapshot]
  /\ UNCHANGED <<isResizing, activeHandle, isEditMode>>

StartResize(handle) ==
  /\ isResizing' = TRUE
  /\ activeHandle' = handle
  /\ last' = [op |-> "startResize", args |-> <<handle>>, pre |-> Snapshot]
  /\ UNCHANGED <<config, isEditMode, steps>>

\* updateResize without the early return, resizing from a default corner
UpdateResize_noGuard(delta) ==
  /\ steps < MaxSteps
  /\ config' = updateResize(config,
                             IF activeHandle = null THEN "bottom-right"
                             ELSE activeHandle, delta)
  /\ steps' = steps + 1
  /\ last' = [op |-> "updateResize", args |-> <<delta>>, pre |-> Snapshot]
  /\ UNCHANGED <<isResizing, activeHandle, isEditMode>>

UpdateResize(delta) ==
  /\ steps < MaxSteps
  /\ config' = IF activeHandle = null THEN config
               ELSE updateResize(config, activeHandle, delta)
  /\ steps' = steps + 1
  /\ last' = [op |-> "updateResize", args |-> <<delta>>, pre |-> Snapshot]
  /\ UNCHANGED <<isResizing, activeHandle, isEditMode>>

\* endResize that forgets to clear the handle
EndResize_keepHandle ==
  /\ isResizing' = FALSE
  /\ last' = [op |-> "endResize", args |-> <<>>, pre |-> Snapshot]
  /\ UNCHANGED <<config, activeHandle, isEditMode, steps>>

EndResize ==
  /\ isResizing' = FALSE
  /\ activeHandle' = null
  /\ last' = [op |-> "endResize", args |-> <<>>, pre |-> Snapshot]
  /\ UNCHANGED <<config, isEditMode, steps>>

\* toggleEditMode that always switches edit mode on
ToggleEditMode_alwaysOn ==
  /\ isEditMode' = TRUE
  /\ last' = [op |-> "toggleEditMode", args |-> <<>>, pre |-> Snapshot]
  /\ UNCHANGED <<config, isResizing, activeHandle, steps>>

ToggleEditMode ==
  /\ isEditMode' = ~isEditMode
  /\ last' = [op |-> "toggleEditMode", args |-> <<>>, pre |-> Snapshot]
  /\ UNCHANGED <<config, isResizing, activeHandle, steps>>

UpdateContentPosition(offset) ==
  /\ steps < MaxSteps
  /\ config' = updateContentPosition(config, offset)
  /\ steps' = steps + 1
  /\ last' = [op |-> "updateContentPosition", args |-> <<offset>>, pre |-> Snapshot]
  /\ UNCHANGED <<isResizing, activeHandle, isEditMode>>

UpdateContentScale(scale) ==
  /\ steps < MaxSteps
  /\ config' = updateContentScale(config, scale)
  /\ steps' = steps + 1
  /\ last' = [op |-> "updateContentScale", args |-> <<scale>>, pre |-> Snapshot]
  /\ UNCHANGED <<isResizing, activeHandle, isEditMode>>

InitializeFrame(imageDimensions, containerSize) ==
  /\ steps < MaxSteps
  /\ config' = initializeFrame(imageDimensions, containerSize)
  /\ isResizing' = FALSE
  /\ activeHandle' = null
  /\ isEditMode' = FALSE
  /\ steps' = steps + 1
  /\ last' = [op |-> "initializeFrame",
              args |-> <<imageDimensions, containerSize>>, pre |-> Snapshot]

\* resetFrame that leaves the resize gesture open
ResetFrame_keepGesture ==
  /\ steps < MaxSteps
  /\ config' = DEFAULT_CONFIG
  /\ isEditMode' = FALSE
  /\ steps' = steps + 1
  /\ last' = [op |-> "resetFrame", args |-> <<>>, pre |-> Snapshot]
  /\ UNCHANGED <<isResizing, activeHandle>>

ResetFrame ==
  /\ steps < MaxSteps
  /\ config' = DEFAULT_CONFIG
  /\ isResizing' = FALSE
  /\ activeHandle' = null
  /\ isEditMode' = FALSE
  /\ steps' = steps + 1
  /\ last' = [op |-> "resetFrame", args |-> <<>>, pre |-> Snapshot]

Next ==
  \/ \E aspectRatio \in AspectRatio : SetAspectRatio(aspectRatio) /\ UNCHANGED <<geomVars, pairVars, hookVars, classVars, cropVars>>
  \/ \E handle \in Corners : StartResize(handle) /\ UNCHANGED <<geomVars, pairVars, hookVars, classVars, cropVars>>
  \/ \E delta \in Deltas : UpdateResize(delta) /\ UNCHANGED <<geomVars, pairVars, hookVars, classVars, cropVars>>
  \/ EndResize /\ UNCHANGED <<geomVars, pairVars, hookVars, classVars, cropVars>>
  \/ ToggleEditMode /\ UNCHANGED <<geomVars, pairVars, hookVars, classVars, cropVars>>
  \/ \E offset \in Offsets : UpdateContentPosition(offset) /\ UNCHANGED <<geomVars, pairVars, hookVars, classVars, cropVars>>
  \/ \E scale \in Scales : UpdateContentScale(scale) /\ UNCHANGED <<geomVars, pairVars, hookVars, classVars, cropVars>>
  \/ \E a \in InitArgs : InitializeFrame(a[1], a[2]) /\ UNCHANGED <<geomVars, pairVars, hookVars, classVars, cropVars>>
  \/ ResetFrame /\ UNCHANGED <<geomVars, pairVars, hookVars, classVars, cropVars>>

Spec ==
  Init /\ [][Next]_vars

(***************************************************************************)
(* The store when initializeFrame is also handed empty or negative sizes   *)
(* (an image that failed to decode, a container with no layout).           *)
(***************************************************************************)
DegenerateInitArgs ==
  { <<Dim(0, 0),      Dim(600, 500)>>,
    <<Dim(400, 300),  Dim(0, 0)>>,
    <<Dim(-400, 300), Dim(600, 500)>> }

DegenerateNext ==
  \/ Next
  \/ \E a \in DegenerateInitArgs : InitializeFrame(a[1], a[2]) /\ UNCHANGED <<geomVars, pairVars, hookVars, classVars, cropVars>>

DegenerateSpec ==
  Init /\ [][DegenerateNext]_vars

(***************************************************************************)
(* Geometry engine on its own: one call drawn from the input sets, applied *)
(* once.                                                                   *)
(***************************************************************************)
FrameDimensionsCalls ==
  [fn : {"calculateFrameDimensions"}, aspectRatio : AspectRatio,
   maxWidth : GeomSizes, maxHeight : GeomSizes]

ProportionalResizeCalls ==
  [fn : {"calculateProportionalResize"}, currentDimensions : GeomCurrents,
   delta : [x : GeomDeltaValues, y : GeomDeltaValues],
   corner : Corners, aspectRatio : AspectRatio]

\* the labels a caller can hold: the AspectRatio type of the hook and of the
\* crop tool's selector has "21:9" on top of the six of the table
HookAspectRatio ==
  {"4:3", "16:9", "1:1", "9:16", "3:2", "2:3", "21:9"}

GetAspectRatioValueCalls ==
  [fn : {"getAspectRatioValue"}, aspectRatio : HookAspectRatio]

GeomInit ==
  /\ StoreInit
  /\ \/ call \in FrameDimensionsCalls
     \/ call \in ProportionalResizeCalls
     \/ call \in GetAspectRatioValueCalls
  /\ ret = NoRet
  /\ PairAtRest
  /\ HookAtRest
  /\ ClassAtRest
  /\ CropAtRest

ApplyFrameDimensions ==
  /\ call.fn = "calculateFrameDimensions"
  /\ ~ret.done
  /\ ret' = [done |-> TRUE,
             value |-> calculateFrameDimensions(call.aspectRatio,
                                                call.maxWidth, call.maxHeight),
             ratio |-> N(0), error |-> "none"]
  /\ UNCHANGED <<call, storeVars, pairVars, hookVars, classVars, cropVars>>

ApplyProportionalResize ==
  /\ call.fn = "calculateProportionalResize"
  /\ ~ret.done
  /\ ret' = [done |-> TRUE,
             value |-> calculateProportionalResize(call.currentDimensions,
                         call.delta, call.corner, call.aspectRatio),
             ratio |-> N(0), error |-> "none"]
  /\ UNCHANGED <<call, storeVars, pairVars, hookVars, classVars, cropVars>>

\* getAspectRatioValue has no throw: it returns a number for every label
ApplyGetAspectRatioValue ==
  /\ call.fn = "getAspectRatioValue"
  /\ ~ret.done
  /\ ret' = [done |-> TRUE, value |-> [width |-> N(0), height |-> N(0)],
             ratio |-> getAspectRatioValue(call.aspectRatio), error |-> "none"]
  /\ UNCHANGED <<call, storeVars, pairVars, hookVars, classVars, cropVars>>

GeomNext ==
  \/ ApplyFrameDimensions
  \/ ApplyProportionalResize
  \/ ApplyGetAspectRatioValue

GeomSpec ==
  GeomInit /\ [][GeomNext]_vars

(***************************************************************************)
(* Two runs of one resize gesture.  Both start in the same store state     *)
(* with the same corner grabbed and receive the same deltas; run B calls   *)
(* endResize and startResize(corner) between two updateResize calls, run   *)
(* A does not.  pc counts the calls a run has made.                        *)
(***************************************************************************)
startResizeOn(st, handle) ==
  [st EXCEPT !.isResizing = TRUE, !.activeHandle = handle]

updateResizeOn(st, delta) ==
  IF st.activeHandle = null
  THEN st
  ELSE [st EXCEPT !.config = updateResize(st.config, st.activeHandle, delta)]

\* endResize that commits the frame in whole pixels
endResizeOn_wholePixels(st) ==
  [st EXCEPT !.isResizing = FALSE, !.activeHandle = null,
             !.config.frame =
                [width  |-> N(st.config.frame.width[1] \div st.config.frame.width[2]),
                 height |-> N(st.config.frame.height[1] \div st.config.frame.height[2])]]

endResizeOn(st) ==
  [st EXCEPT !.isResizing = FALSE, !.activeHandle = null]

GestureLen ==
  2

\* store configurations a gesture can start in
PairStarts ==
  {DEFAULT_CONFIG}
    \cup { initializeFrame(a[1], a[2]) : a \in InitArgs }
    \cup { setAspectRatio(DEFAULT_CONFIG, aspectRatio) : aspectRatio \in AspectRatio }

PairInit ==
  /\ StoreInit
  /\ call = NoCall
  /\ ret = NoRet
  /\ HookAtRest
  /\ ClassAtRest
  /\ CropAtRest
  /\ \E cfg \in PairStarts, corner \in Corners, deltas \in [1..GestureLen -> Deltas] :
       /\ gesture = [corner |-> corner, deltas |-> deltas, start |-> cfg]
       /\ runA = [store |-> startResizeOn(StoreState(cfg), corner), pc |-> 0]
       /\ runB = [store |-> startResizeOn(StoreState(cfg), corner), pc |-> 0]

\* run A: updateResize(deltas[1]); updateResize(deltas[2]); ...
RunAUpdateResize ==
  /\ runA.pc < GestureLen
  /\ runA' = [store |-> updateResizeOn(runA.store, gesture.deltas[runA.pc + 1]),
              pc    |-> runA.pc + 1]
  /\ UNCHANGED <<runB, gesture>>

\* run B: updateResize(deltas[1]); endResize; startResize(corner);
\* updateResize(deltas[2]); ...  It starts when run A is through.
RunBUpdateResize ==
  /\ runA.pc = GestureLen
  /\ runB.pc % 3 = 0
  /\ runB.pc \div 3 < GestureLen
  /\ runB' = [store |-> updateResizeOn(runB.store,
                                       gesture.deltas[(runB.pc \div 3) + 1]),
              pc    |-> runB.pc + 1]
  /\ UNCHANGED <<runA, gesture>>

RunBEndResize ==
  /\ runB.pc % 3 = 1
  /\ runB.pc \div 3 < GestureLen - 1
  /\ runB' = [store |-> endResizeOn(runB.store), pc |-> runB.pc + 1]
  /\ UNCHANGED <<runA, gesture>>

RunBStartResize ==
  /\ runB.pc % 3 = 2
  /\ runB' = [store |-> startResizeOn(runB.store, gesture.corner),
              pc    |-> runB.pc + 1]
  /\ UNCHANGED <<runA, gesture>>

PairNext ==
  \/ RunAUpdateResize /\ UNCHANGED <<storeVars, geomVars, hookVars, classVars, cropVars>>
  \/ RunBUpdateResize /\ UNCHANGED <<storeVars, geomVars, hookVars, classVars, cropVars>>
  \/ RunBEndResize /\ UNCHANGED <<storeVars, geomVars, hookVars, classVars, cropVars>>
  \/ RunBStartResize /\ UNCHANGED <<storeVars, geomVars, hookVars, classVars, cropVars>>

PairSpec ==
  PairInit /\ [][PairNext]_vars

(***************************************************************************)
(* The useImageFrame hook: one function per callback, applied to the       *)
(* state of the render the callback was created in, and one action per     *)
(* call.  A render separates any two calls.  hookLast is a history         *)
(* variable; hookDrags counts the startDrag calls.                         *)
(***************************************************************************)
enterEditMode(h) ==
  [h EXCEPT !.isEditMode = TRUE]

exitEditMode(h) ==
  [h EXCEPT !.isEditMode = FALSE, !.isDragging = FALSE, !.isScaling = FALSE]

startDrag(h, clientX, clientY) ==
  [h EXCEPT !.isDragging       = TRUE,
            !.dragStartPos     = Some([x |-> clientX, y |-> clientY]),
            !.initialTransform = Some(h.contentTransform)]

updateDrag(h, clientX, clientY) ==
  IF ~h.isDragging \/ h.dragStartPos = None \/ h.initialTransform = None
  THEN h
  ELSE LET deltaX == Sub(clientX, h.dragStartPos[1].x)
           deltaY == Sub(clientY, h.dragStartPos[1].y)
       IN  [h EXCEPT !.contentTransform =
              [h.initialTransform[1] EXCEPT
                 !.x = Add(h.initialTransform[1].x, deltaX),
                 !.y = Add(h.initialTransform[1].y, deltaY)]]

endDrag(h) ==
  [h EXCEPT !.isDragging = FALSE, !.dragStartPos = None,
            !.initialTransform = None]

updateScale(h, newScale, minScale) ==
  LET clampedScale == MathMax(newScale, minScale)
  IN  [h EXCEPT !.contentTransform.scale = clampedScale]

startScale(h) ==
  [h EXCEPT !.isScaling = TRUE]

endScale(h) ==
  [h EXCEPT !.isScaling = FALSE]

resetTransform(h) ==
  [h EXCEPT !.contentTransform = [x |-> N(0), y |-> N(0), scale |-> N(1)]]

\* the hook's keydown listener, for the Escape key
hookHandleKeyDown(h) ==
  IF h.isEditMode THEN exitEditMode(h) ELSE h

MaxDrags ==
  2

\* pointer positions (clientX, clientY)
HookPointers ==
  { Pt(0, 0), Pt(10, 5), Pt(-20, 15) }

\* updateScale arguments <<newScale, minScale>>
HookScaleArgs ==
  { <<Norm(1, 2), N(1)>>, <<N(2), N(1)>>, <<Norm(3, 2), Norm(1, 2)>> }

HookInit ==
  /\ StoreInit
  /\ call = NoCall
  /\ ret = NoRet
  /\ PairAtRest
  /\ HookAtRest
  /\ ClassAtRest
  /\ CropAtRest

HookCall(op, args, h) ==
  /\ hook' = h
  /\ hookLast' = [op |-> op, args |-> args, pre |-> hook]

HookEnterEditMode ==
  /\ HookCall("enterEditMode", <<>>, enterEditMode(hook))
  /\ UNCHANGED hookDrags

HookExitEditMode ==
  /\ HookCall("exitEditMode", <<>>, exitEditMode(hook))
  /\ UNCHANGED hookDrags

HookStartDrag(p) ==
  /\ hookDrags < MaxDrags
  /\ HookCall("startDrag", <<p>>, startDrag(hook, p.x, p.y))
  /\ hookDrags' = hookDrags + 1

HookUpdateDrag(p) ==
  /\ HookCall("updateDrag", <<p>>, updateDrag(hook, p.x, p.y))
  /\ UNCHANGED hookDrags

HookEndDrag ==
  /\ HookCall("endDrag", <<>>, endDrag(hook))
  /\ UNCHANGED hookDrags

HookUpdateScale(a) ==
  /\ HookCall("updateScale", a, updateScale(hook, a[1], a[2]))
  /\ UNCHANGED hookDrags

HookStartScale ==
  /\ HookCall("startScale", <<>>, startScale(hook))
  /\ UNCHANGED hookDrags

HookEndScale ==
  /\ HookCall("endScale", <<>>, endScale(hook))
  /\ UNCHANGED hookDrags

HookResetTransform ==
  /\ HookCall("resetTransform", <<>>, resetTransform(hook))
  /\ UNCHANGED hookDrags

HookEscape ==
  /\ HookCall("Escape", <<>>, hookHandleKeyDown(hook))
  /\ UNCHANGED hookDrags

HookNext ==
  \/ HookEnterEditMode /\ UNCHANGED <<storeVars, geomVars, pairVars, classVars, cropVars>>
  \/ HookExitEditMode /\ UNCHANGED <<storeVars, geomVars, pairVars, classVars, cropVars>>
  \/ \E p \in HookPointers : HookStartDrag(p) /\ UNCHANGED <<storeVars, geomVars, pairVars, classVars, cropVars>>
  \/ \E p \in HookPointers : HookUpdateDrag(p) /\ UNCHANGED <<storeVars, geomVars, pairVars, classVars, cropVars>>
  \/ HookEndDrag /\ UNCHANGED <<storeVars, geomVars, pairVars, classVars, cropVars>>
  \/ \E a \in HookScaleArgs : HookUpdateScale(a) /\ UNCHANGED <<storeVars, geomVars, pairVars, classVars, cropVars>>
  \/ HookStartScale /\ UNCHANGED <<storeVars, geomVars, pairVars, classVars, cropVars>>
  \/ HookEndScale /\ UNCHANGED <<storeVars, geomVars, pairVars, classVars, cropVars>>
  \/ HookResetTransform /\ UNCHANGED <<storeVars, geomVars, pairVars, classVars, cropVars>>
  \/ HookEscape /\ UNCHANGED <<storeVars, geomVars, pairVars, classVars, cropVars>>

HookSpec ==
  HookInit /\ [][HookNext]_vars

(***************************************************************************)
(* The Fabric.js ImageFrame class: one function per method, one action per *)
(* call.  width and height are the size of the image element.  frameLast   *)
(* is a history variable.                                                  *)
(***************************************************************************)
ImageFrame_enterEditMode(f) ==
  [f EXCEPT !.isEditMode = TRUE]

ImageFrame_exitEditMode(f) ==
  [f EXCEPT !.isEditMode = FALSE]

updateFrame(f, aspectRatio) ==
  LET imgWidth     == OrElse(f.width, N(200))
      imgHeight    == OrElse(f.height, N(200))
      currentRatio == Div(imgWidth, imgHeight)
  IN  IF Gt(currentRatio, aspectRatio)
      THEN [f EXCEPT !.aspectRatio = aspectRatio,
                     !.frameWidth  = Mul(imgHeight, aspectRatio),
                     !.frameHeight = imgHeight]
      ELSE [f EXCEPT !.aspectRatio = aspectRatio,
                     !.frameWidth  = imgWidth,
                     !.frameHeight = Div(imgWidth, aspectRatio)]

ImageFrame_calculateMinimumScale(f) ==
  LET imgWidth  == OrElse(f.width, N(1))
      imgHeight == OrElse(f.height, N(1))
      scaleX    == Div(f.frameWidth, imgWidth)
      scaleY    == Div(f.frameHeight, imgHeight)
  IN  MathMax(scaleX, scaleY)

updateContentTransform(f, offsetX, offsetY, scale) ==
  [f EXCEPT
     !.contentOffsetX = IF offsetX # undefined THEN offsetX ELSE @,
     !.contentOffsetY = IF offsetY # undefined THEN offsetY ELSE @,
     !.contentScale   = IF scale # undefined
                        THEN MathMax(scale, ImageFrame_calculateMinimumScale(f))
                        ELSE @]

resetContentTransform(f) ==
  [f EXCEPT !.contentOffsetX = N(0), !.contentOffsetY = N(0),
            !.contentScale = N(1)]

\* sizes of the image element
ElementSizes ==
  { Dim(400, 300), Dim(200, 200), Dim(300, 400) }

\* constructor options: none, a frame inside a 200x200 element, a frame
\* larger than every element
FrameOptions ==
  { NoOptions,
    [frameWidth |-> N(100), frameHeight |-> N(100), aspectRatio |-> N(1)],
    [frameWidth |-> N(600), frameHeight |-> N(450), aspectRatio |-> undefined] }

\* updateFrame arguments
FrameRatios ==
  { Norm(4, 3), N(1), Norm(9, 16), Norm(16, 9) }

\* updateContentTransform arguments <<offsetX, offsetY, scale>>
ContentTransformArgs ==
  { <<undefined, undefined, Norm(1, 2)>>,
    <<undefined, undefined, N(2)>>,
    <<N(25), N(-10), undefined>>,
    <<N(0), undefined, N(1)>> }

ClassInit ==
  /\ StoreInit
  /\ call = NoCall
  /\ ret = NoRet
  /\ PairAtRest
  /\ HookAtRest
  /\ CropAtRest
  /\ \E e \in ElementSizes, options \in FrameOptions :
       /\ imageFrame = ImageFrame(e.width, e.height, options)
       /\ frameLast = [op |-> "new", args |-> <<>>, pre |-> <<>>]

FrameCall(op, args, f) ==
  /\ imageFrame' = f
  /\ frameLast' = [op |-> op, args |-> args, pre |-> imageFrame]

FrameEnterEditMode ==
  FrameCall("enterEditMode", <<>>, ImageFrame_enterEditMode(imageFrame))

FrameExitEditMode ==
  FrameCall("exitEditMode", <<>>, ImageFrame_exitEditMode(imageFrame))

UpdateFrame(aspectRatio) ==
  FrameCall("updateFrame", <<aspectRatio>>, updateFrame(imageFrame, aspectRatio))

UpdateContentTransform(a) ==
  FrameCall("updateContentTransform", a,
            updateContentTransform(imageFrame, a[1], a[2], a[3]))

ResetContentTransform ==
  FrameCall("resetContentTransform", <<>>, resetContentTransform(imageFrame))

ClassNext ==
  \/ FrameEnterEditMode /\ UNCHANGED <<storeVars, geomVars, pairVars, hookVars, cropVars>>
  \/ FrameExitEditMode /\ UNCHANGED <<storeVars, geomVars, pairVars, hookVars, cropVars>>
  \/ \E aspectRatio \in FrameRatios : UpdateFrame(aspectRatio) /\ UNCHANGED <<storeVars, geomVars, pairVars, hookVars, cropVars>>
  \/ \E a \in ContentTransformArgs : UpdateContentTransform(a) /\ UNCHANGED <<storeVars, geomVars, pairVars, hookVars, cropVars>>
  \/ ResetContentTransform /\ UNCHANGED <<storeVars, geomVars, pairVars, hookVars, cropVars>>

ClassSpec ==
  ClassInit /\ [][ClassNext]_vars

(***************************************************************************)
(* The Fabric.js utilities and the ImageCrop panel, for one selected and   *)
(* loaded image (its element exists).  One function per utility or         *)
(* handler, one action per user event.  Time passes in steps of TICK_MS.   *)
(* firstPressAge is the time in ms since a press that opened a             *)
(* double-click window still open, -1 when no window is open; it is kept   *)
(* by the events alone and read by no handler.  cropSteps counts the       *)
(* applyContentTransform calls; cropLast is a history variable.            *)
(***************************************************************************)
ASPECT_RATIOS(ratio) ==
  CASE ratio = "4:3"  -> Div(N(4), N(3))
    [] ratio = "16:9" -> Div(N(16), N(9))
    [] ratio = "1:1"  -> N(1)
    [] ratio = "9:16" -> Div(N(9), N(16))
    [] ratio = "3:2"  -> Div(N(3), N(2))
    [] ratio = "2:3"  -> Div(N(2), N(3))
    [] ratio = "21:9" -> Div(N(21), N(9))

createFrameFromImage(img, aspectRatio) ==
  LET imgWidth     == OrElse(img.width, N(200))
      imgHeight    == OrElse(img.height, N(200))
      currentRatio == Div(imgWidth, imgHeight)
  IN  IF Gt(currentRatio, aspectRatio)
      THEN [aspectRatio |-> aspectRatio,
            width  |-> Mul(imgHeight, aspectRatio), height |-> imgHeight]
      ELSE [aspectRatio |-> aspectRatio,
            width  |-> imgWidth, height |-> Div(imgWidth, aspectRatio)]

applyFrameToImage(img, frameConfig) ==
  [img EXCEPT !._frameConfig      = Some(frameConfig),
              !._contentTransform =
                 Some([offsetX |-> N(0), offsetY |-> N(0), scale |-> N(1)])]

enterImageEditMode(img) ==
  [img EXCEPT !._editMode = TRUE]

exitImageEditMode(img) ==
  [img EXCEPT !._editMode = FALSE]

isImageInEditMode(img) ==
  img._editMode

calculateMinimumScale(img, frameConfig) ==
  LET imgWidth  == OrElse(img.width, N(1))
      imgHeight == OrElse(img.height, N(1))
      scaleX    == Div(frameConfig.width, imgWidth)
      scaleY    == Div(frameConfig.height, imgHeight)
  IN  MathMax(scaleX, scaleY)

\* _contentTransform || {offsetX: 0, offsetY: 0, scale: 1}
currentTransformOf(img) ==
  IF img._contentTransform = None
  THEN [offsetX |-> N(0), offsetY |-> N(0), scale |-> N(1)]
  ELSE img._contentTransform[1]

\* transform is a Partial<ContentTransform>: a key it lacks is undefined
applyContentTransform(img, transform) ==
  LET currentTransform == currentTransformOf(img)
      merged ==
        [offsetX |-> IF transform.offsetX # undefined
                     THEN transform.offsetX ELSE currentTransform.offsetX,
         offsetY |-> IF transform.offsetY # undefined
                     THEN transform.offsetY ELSE currentTransform.offsetY,
         scale   |-> IF transform.scale # undefined
                     THEN transform.scale ELSE currentTransform.scale]
      newTransform ==
        IF img._frameConfig # None
        THEN [merged EXCEPT !.scale =
                MathMax(@, calculateMinimumScale(img, img._frameConfig[1]))]
        ELSE merged
      scaleX == OrElse(img.scaleX, N(1))
      scaleY == OrElse(img.scaleY, N(1))
  IN  [img EXCEPT !._contentTransform = Some(newTransform),
                  !.scaleX = Mul(scaleX, newTransform.scale),
                  !.scaleY = Mul(scaleY, newTransform.scale)]

DOUBLE_CLICK_MS ==
  300

TICK_MS ==
  100

\* handleClick of setupDoubleClickHandler: the closure after the press and
\* whether the press was detected as a double-click
handleClick(d) ==
  LET clickCount == d.clickCount + 1
  IN  IF clickCount = 1
      THEN [closure  |-> [clickCount |-> clickCount, clickTimer |-> DOUBLE_CLICK_MS],
            detected |-> FALSE]
      ELSE IF clickCount = 2
      THEN [closure  |-> [clickCount |-> 0, clickTimer |-> 0],
            detected |-> TRUE]
      ELSE [closure  |-> [d EXCEPT !.clickCount = clickCount],
            detected |-> FALSE]

\* the timeout callback that forgets to reset the counter
clickTimeout_keepCount(d) ==
  [d EXCEPT !.clickTimer = 0]

\* the timeout callback, run when the timer expires
clickTimeout(d) ==
  [clickCount |-> 0, clickTimer |-> 0]

\* handlers of setupContentPanning
panMouseDown(pan, img, pointer) ==
  IF ~isImageInEditMode(img)
  THEN pan
  ELSE [isDragging |-> TRUE, lastX |-> pointer.x, lastY |-> pointer.y]

panMouseMove(pan, img, pointer) ==
  IF ~pan.isDragging \/ ~isImageInEditMode(img)
  THEN [panning |-> pan, image |-> img]
  ELSE LET deltaX == Sub(pointer.x, pan.lastX)
           deltaY == Sub(pointer.y, pan.lastY)
           currentTransform == currentTransformOf(img)
       IN  [panning |-> [pan EXCEPT !.lastX = pointer.x, !.lastY = pointer.y],
            image   |-> applyContentTransform(img,
                          [offsetX |-> Add(currentTransform.offsetX, deltaX),
                           offsetY |-> Add(currentTransform.offsetY, deltaY),
                           scale   |-> undefined])]

panMouseUp(pan) ==
  [pan EXCEPT !.isDragging = FALSE]

\* handlers of ImageCrop: the image and the panel state after the call
applyAspectRatio(img, pnl, ratio) ==
  LET aspectRatioValue == ASPECT_RATIOS(ratio)
      frameConfig      == createFrameFromImage(img, aspectRatioValue)
  IN  [image |-> applyFrameToImage(img, frameConfig),
       panel |-> [pnl EXCEPT !.isCropMode = TRUE]]

handleEnableCropMode(img, pnl) ==
  [image |-> img, panel |-> [pnl EXCEPT !.isCropMode = TRUE]]

handleDisableCropMode(img, pnl) ==
  [image |-> img, panel |-> [pnl EXCEPT !.isCropMode = FALSE]]

handleEnterEditMode(img, pnl) ==
  [image |-> enterImageEditMode(img),
   panel |-> [pnl EXCEPT !.isEditModeActive = TRUE]]

handleExitEditMode(img, pnl) ==
  [image |-> exitImageEditMode(img),
   panel |-> [pnl EXCEPT !.isEditModeActive = FALSE]]

\* the panel's keydown listener, for the Escape key
handleKeyDown(img, pnl) ==
  IF pnl.isEditModeActive
  THEN handleExitEditMode(img, pnl)
  ELSE [image |-> img, panel |-> pnl]

handleReset(img, pnl) ==
  [image |-> [img EXCEPT !._frameConfig = None, !._contentTransform = None],
   panel |-> [pnl EXCEPT !.isCropMode = FALSE, !.isEditModeActive = FALSE]]

MaxTransforms ==
  2

CropImages ==
  { FabricImage(N(400), N(300)) }

CropRatios ==
  { "1:1", "21:9" }

\* canvas pointer positions
CropPointers ==
  { Pt(10, 10), Pt(40, 25) }

\* scales passed to applyContentTransform by a zoom
ZoomScales ==
  { N(2) }

CropInit ==
  /\ StoreInit
  /\ call = NoCall
  /\ ret = NoRet
  /\ PairAtRest
  /\ HookAtRest
  /\ ClassAtRest
  /\ \E img \in CropImages : CropStart(img)

\* the Aspect Ratio select
SelectAspectRatio(ratio) ==
  LET r == applyAspectRatio(activeObj, panel, ratio)
  IN  /\ activeObj' = r.image
      /\ panel' = r.panel
      /\ cropLast' = [op |-> "applyAspectRatio", args |-> <<ratio>>,
                      detected |-> FALSE, pre |-> CropSnapshot]
      /\ UNCHANGED <<dblClick, panning, firstPressAge, cropSteps>>

\* the Enter Crop Mode / Exit Crop Mode button
ClickCropMode ==
  LET r == IF panel.isCropMode
           THEN handleDisableCropMode(activeObj, panel)
           ELSE handleEnableCropMode(activeObj, panel)
  IN  /\ activeObj' = r.image
      /\ panel' = r.panel
      /\ cropLast' = [op |-> "cropMode", args |-> <<>>,
                      detected |-> FALSE, pre |-> CropSnapshot]
      /\ UNCHANGED <<dblClick, panning, firstPressAge, cropSteps>>

\* a press on the image: handleClick, then the panning handler's mousedown,
\* in the order ImageCrop registers them
MouseDown(pointer) ==
  LET click   == handleClick(dblClick)
      entered == IF click.detected
                 THEN handleEnterEditMode(enterImageEditMode(activeObj), panel)
                 ELSE [image |-> activeObj, panel |-> panel]
  IN  /\ dblClick' = click.closure
      /\ activeObj' = entered.image
      /\ panel' = entered.panel
      /\ panning' = panMouseDown(panning, entered.image, pointer)
      /\ firstPressAge' = IF firstPressAge < 0 THEN 0 ELSE -1
      /\ cropLast' = [op |-> "mousedown", args |-> <<pointer>>,
                      detected |-> click.detected, pre |-> CropSnapshot]
      /\ UNCHANGED cropSteps

MouseMove(pointer) ==
  LET r    == panMouseMove(panning, activeObj, pointer)
      pans == panning.isDragging /\ isImageInEditMode(activeObj)
  IN  /\ pans => cropSteps < MaxTransforms
      /\ panning' = r.panning
      /\ activeObj' = r.image
      /\ cropSteps' = IF pans THEN cropSteps + 1 ELSE cropSteps
      /\ cropLast' = [op |-> "mousemove", args |-> <<pointer>>,
                      detected |-> FALSE, pre |-> CropSnapshot]
      /\ UNCHANGED <<panel, dblClick, firstPressAge>>

MouseUp ==
  /\ panning' = panMouseUp(panning)
  /\ cropLast' = [op |-> "mouseup", args |-> <<>>,
                  detected |-> FALSE, pre |-> CropSnapshot]
  /\ UNCHANGED <<activeObj, panel, dblClick, firstPressAge, cropSteps>>

\* TICK_MS pass while a timeout is pending; the timeout callback runs when
\* its time is up
Elapse ==
  /\ dblClick.clickTimer > 0 \/ firstPressAge >= 0
  /\ dblClick' = IF dblClick.clickTimer > TICK_MS
                 THEN [dblClick EXCEPT !.clickTimer = @ - TICK_MS]
                 ELSE IF dblClick.clickTimer > 0
                 THEN clickTimeout(dblClick)
                 ELSE dblClick
  /\ firstPressAge' = IF firstPressAge < 0 THEN -1
                      ELSE IF firstPressAge + TICK_MS >= 300 THEN -1
                      ELSE firstPressAge + TICK_MS
  /\ cropLast' = [op |-> "elapse", args |-> <<>>,
                  detected |-> FALSE, pre |-> CropSnapshot]
  /\ UNCHANGED <<activeObj, panel, panning, cropSteps>>

PressEscape ==
  LET r == handleKeyDown(activeObj, panel)
  IN  /\ activeObj' = r.image
      /\ panel' = r.panel
      /\ cropLast' = [op |-> "Escape", args |-> <<>>,
                      detected |-> FALSE, pre |-> CropSnapshot]
      /\ UNCHANGED <<dblClick, panning, firstPressAge, cropSteps>>

\* the Reset Crop button
ResetCrop ==
  LET r == handleReset(activeObj, panel)
  IN  /\ activeObj' = r.image
      /\ panel' = r.panel
      /\ cropLast' = [op |-> "handleReset", args |-> <<>>,
                      detected |-> FALSE, pre |-> CropSnapshot]
      /\ UNCHANGED <<dblClick, panning, firstPressAge, cropSteps>>

\* a zoom: applyContentTransform(image, {scale})
ApplyZoom(scale) ==
  /\ cropSteps < MaxTransforms
  /\ activeObj' = applyContentTransform(activeObj,
                    [offsetX |-> undefined, offsetY |-> undefined,
                     scale   |-> scale])
  /\ cropSteps' = cropSteps + 1
  /\ cropLast' = [op |-> "zoom", args |-> <<scale>>,
                  detected |-> FALSE, pre |-> CropSnapshot]
  /\ UNCHANGED <<panel, dblClick, panning, firstPressAge>>

CropNext ==
  \/ \E ratio \in CropRatios : SelectAspectRatio(ratio) /\ UNCHANGED <<storeVars, geomVars, pairVars, hookVars, classVars>>
  \/ ClickCropMode /\ UNCHANGED <<storeVars, geomVars, pairVars, hookVars, classVars>>
  \/ \E pointer \in CropPointers : MouseDown(pointer) /\ UNCHANGED <<storeVars, geomVars, pairVars, hookVars, classVars>>
  \/ \E pointer \in CropPointers : MouseMove(pointer) /\ UNCHANGED <<storeVars, geomVars, pairVars, hookVars, classVars>>
  \/ MouseUp /\ UNCHANGED <<storeVars, geomVars, pairVars, hookVars, classVars>>
  \/ Elapse /\ UNCHANGED <<storeVars, geomVars, pairVars, hookVars, classVars>>
  \/ PressEscape /\ UNCHANGED <<storeVars, geomVars, pairVars, hookVars, classVars>>
  \/ ResetCrop /\ UNCHANGED <<storeVars, geomVars, pairVars, hookVars, classVars>>
  \/ \E scale \in ZoomScales : ApplyZoom(scale) /\ UNCHANGED <<storeVars, geomVars, pairVars, hookVars, classVars>>

CropSpec ==
  CropInit /\ [][CropNext]_vars

(***************************************************************************)
(* Properties of the store and of the geometry engine                      *)
(***************************************************************************)
\* coverageScale of the specification, written out
CoverageOf(content, frame) ==
  MathMax(Div(frame.width, content.width), Div(frame.height, content.height))

\* the store method called last ran its body (updateResize had a handle)
Acted(op) ==
  /\ last.op = op
  /\ op = "updateResize" => last.pre.activeHandle # null

\* C1: in every reachable store state the frame is on the locked ratio,
\* frame.width / frame.height = ratio(aspectRatio).
C1_FrameOnRatio ==
  Div(config.frame.width, config.frame.height)
    = getAspectRatioValue(config.aspectRatio)

\* a resize under a ratio other than the default one hit the minimum clamp
C1_Witness ==
  /\ Acted("updateResize")
  /\ config.aspectRatio = "16:9"
  /\ config.frame.width = N(MIN_WIDTH)
  /\ config.frame # last.pre.config.frame

\* C2: in every reachable store state the scaled content is at least as
\* large as the frame on both axes.
C2_Coverage ==
  /\ Ge(Mul(config.content.width, config.contentScale), config.frame.width)
  /\ Ge(Mul(config.content.height, config.contentScale), config.frame.height)

\* a resize made the frame wider than the unscaled content
C2_Witness ==
  /\ Acted("updateResize")
  /\ Gt(config.frame.width, last.pre.config.frame.width)
  /\ Gt(config.frame.width, config.content.width)

\* C3: calculateProportionalResize with the default minimums returns
\* width >= 100 and height >= 100.
C3_MinimumsRespected ==
  (ret.done /\ call.fn = "calculateProportionalResize")
    => /\ Ge(ret.value.width, N(100))
       /\ Ge(ret.value.height, N(100))

\* C4: the dimensions returned by calculateFrameDimensions and by
\* calculateProportionalResize are on the ratio of the requested label,
\* width / height = ratio(R), also when a minimum clamp fired.
C4_ResultOnRatio ==
  (ret.done /\ call.fn \in {"calculateFrameDimensions", "calculateProportionalResize"}) =>
    Div(ret.value.width, ret.value.height) = getAspectRatioValue(call.aspectRatio)

\* an off-ratio current frame was resized and the width clamp fired
C4_Witness ==
  /\ ret.done
  /\ call.fn = "calculateProportionalResize"
  /\ call.currentDimensions = Dim(250, 100)
  /\ call.aspectRatio = "16:9"
  /\ ret.value.width = N(100)

\* C5: calculateFrameDimensions stays inside the maxWidth x maxHeight box
\* and touches it on one side.
C5_FitsBox ==
  (ret.done /\ call.fn = "calculateFrameDimensions")
    => /\ Le(ret.value.width, call.maxWidth)
       /\ Le(ret.value.height, call.maxHeight)
       /\ \/ ret.value.width = call.maxWidth
          \/ ret.value.height = call.maxHeight

\* the height bound was the binding one
C5_Witness ==
  /\ ret.done
  /\ call.fn = "calculateFrameDimensions"
  /\ ret.value.height = call.maxHeight
  /\ Lt(ret.value.width, call.maxWidth)

\* C6: every updateResize with an active handle keeps the corner opposite
\* to the handle where it was.
C6_OppositeCornerFixed ==
  Acted("updateResize") =>
    LET h     == last.pre.activeHandle
        old   == last.pre.config
        left  == config.position.x = old.position.x
        top   == config.position.y = old.position.y
        right == Add(config.position.x, config.frame.width)
                   = Add(old.position.x, old.frame.width)
        bottom == Add(config.position.y, config.frame.height)
                   = Add(old.position.y, old.frame.height)
    IN  /\ h = "bottom-right" => left /\ top
        /\ h = "top-left"     => right /\ bottom
        /\ h = "top-right"    => left /\ bottom
        /\ h = "bottom-left"  => right /\ top

\* a top-left resize changed both dimensions and moved the frame
C6_Witness ==
  /\ Acted("updateResize")
  /\ last.pre.activeHandle = "top-left"
  /\ config.frame.width # last.pre.config.frame.width
  /\ config.frame.height # last.pre.config.frame.height
  /\ config.position.x # last.pre.config.position.x
  /\ config.position.y # last.pre.config.position.y

\* C7: setAspectRatio keeps the center point of the frame.
C7_CenterPreserved ==
  Acted("setAspectRatio") =>
    LET old == last.pre.config
    IN  /\ Add(config.position.x, Div(config.frame.width, N(2)))
             = Add(old.position.x, Div(old.frame.width, N(2)))
        /\ Add(config.position.y, Div(config.frame.height, N(2)))
             = Add(old.position.y, Div(old.frame.height, N(2)))

\* frame {400,300} at {100,100} switched to 1:1 became {400,400} at {100,50}
C7_Witness ==
  /\ Acted("setAspectRatio")
  /\ last.args = <<"1:1">>
  /\ last.pre.config.frame = Dim(400, 300)
  /\ last.pre.config.position = Pt(100, 100)
  /\ config.frame = Dim(400, 400)
  /\ config.position = Pt(100, 50)

\* C8: setAspectRatio keeps the frame width and sets
\* height = width / ratio(label); the 2*width height bound never binds.
C8_WidthIsBudget ==
  Acted("setAspectRatio") =>
    /\ config.frame.width = last.pre.config.frame.width
    /\ config.frame.height
         = Div(config.frame.width, getAspectRatioValue(last.args[1]))

\* the tallest ratio of the table was selected
C8_Witness ==
  /\ Acted("setAspectRatio")
  /\ last.args = <<"9:16">>
  /\ Gt(config.frame.height, config.frame.width)
  /\ Lt(config.frame.height, Mul(config.frame.width, N(2)))

\* C9: initializeFrame yields a state fixed by its two arguments: ratio
\* 4:3, the largest 4:3 frame within min(0.8*container, image), centered in
\* the container, content = image, coverage scale, centered offset, and
\* the transient flags cleared.
C9_InitializeFrame ==
  Acted("initializeFrame") =>
    LET image     == last.args[1]
        container == last.args[2]
        maxW == MathMin(Mul(container.width, Norm(4, 5)), image.width)
        maxH == MathMin(Mul(container.height, Norm(4, 5)), image.height)
        f    == config.frame
    IN  /\ config.aspectRatio = "4:3"
        /\ Div(f.width, f.height) = Norm(4, 3)
        /\ Le(f.width, maxW)
        /\ Le(f.height, maxH)
        /\ f.width = maxW \/ f.height = maxH
        /\ config.position
             = [x |-> Div(Sub(container.width, f.width), N(2)),
                y |-> Div(Sub(container.height, f.height), N(2))]
        /\ config.content = image
        /\ config.contentScale = CoverageOf(image, f)
        /\ config.contentOffset
             = [x |-> Div(Sub(f.width, Mul(image.width, config.contentScale)), N(2)),
                y |-> Div(Sub(f.height, Mul(image.height, config.contentScale)), N(2))]
        /\ isResizing = FALSE
        /\ activeHandle = null
        /\ isEditMode = FALSE

\* image 1600x1200 in container 1000x800, called in edit mode during a resize
C9_Witness ==
  /\ Acted("initializeFrame")
  /\ last.args = <<Dim(1600, 1200), Dim(1000, 800)>>
  /\ last.pre.isEditMode
  /\ last.pre.isResizing
  /\ config.frame = Dim(800, 600)
  /\ config.position = Pt(100, 100)
  /\ config.contentScale = Norm(1, 2)
  /\ config.contentOffset = Pt(0, 0)

\* C10: updateContentScale sets contentScale to
\* max(scale, coverageScale(content, frame)) and changes nothing else.
C10_ScaleFloor ==
  Acted("updateContentScale") =>
    LET old == last.pre.config
        req == last.args[1]
        cov == CoverageOf(old.content, old.frame)
    IN  /\ config.contentScale = (IF Lt(req, cov) THEN cov ELSE req)
        /\ config = [old EXCEPT !.contentScale = config.contentScale]
        /\ isResizing = last.pre.isResizing
        /\ activeHandle = last.pre.activeHandle
        /\ isEditMode = last.pre.isEditMode

\* a request of 0.3 against a coverage scale of 0.5 yields 0.5
C10_Witness ==
  /\ Acted("updateContentScale")
  /\ last.args = <<Norm(3, 10)>>
  /\ CoverageOf(last.pre.config.content, last.pre.config.frame) = Norm(1, 2)
  /\ config.contentScale = Norm(1, 2)

\* C11: two toggleEditMode calls in a row give back the state before the
\* first one (config, isResizing, activeHandle, isEditMode), and a single
\* toggleEditMode leaves config.frame alone.
C11_ToggleTwice ==
  /\ [](Acted("toggleEditMode") => config.frame = last.pre.config.frame)
  /\ [][(last.op = "toggleEditMode" /\ last'.op = "toggleEditMode")
          => /\ config' = last.pre.config
             /\ isEditMode' = last.pre.isEditMode
             /\ isResizing' = last.pre.isResizing
             /\ activeHandle' = last.pre.activeHandle]_vars

\* a toggle out of edit mode, during a resize, with no config call made
\* so far: edit mode was entered by an earlier toggle
C11_Witness ==
  /\ Acted("toggleEditMode")
  /\ last.pre.isEditMode
  /\ ~isEditMode
  /\ isResizing
  /\ steps = 0

\* C12: Resizing and EditMode are mutually exclusive: no reachable state has
\* isResizing and isEditMode both true.
C12_MutuallyExclusive ==
  ~(isResizing /\ isEditMode)

\* C13: activeHandle is null exactly when isResizing is false, in every
\* reachable state.
C13_HandleIffResizing ==
  (activeHandle = null) <=> ~isResizing

\* a resize gesture was started again after one had been ended
C13_Witness ==
  /\ Acted("startResize")
  /\ last.args = <<"top-right">>
  /\ ~last.pre.isResizing
  /\ last.pre.activeHandle = null
  /\ isResizing
  /\ activeHandle = "top-right"
  /\ steps > 0

\* C14: updateResize called while the store is not resizing changes nothing.
C14_UpdateResizeIdleNoOp ==
  (last.op = "updateResize" /\ ~last.pre.isResizing) =>
    /\ config = last.pre.config
    /\ isResizing = last.pre.isResizing
    /\ activeHandle = last.pre.activeHandle
    /\ isEditMode = last.pre.isEditMode

\* a non-zero delta arrived after initializeFrame had ended the gesture
C14_Witness ==
  /\ last.op = "updateResize"
  /\ last.args = <<[x |-> N(50), y |-> N(30)]>>
  /\ ~last.pre.isResizing
  /\ last.pre.config.frame = Dim(800, 600)
  /\ config.frame = Dim(800, 600)

\* C15: updateContentPosition called while isEditMode is false changes
\* nothing.
C15_PanOutsideEditModeNoOp ==
  (last.op = "updateContentPosition" /\ ~last.pre.isEditMode) =>
    /\ config = last.pre.config
    /\ isResizing = last.pre.isResizing
    /\ activeHandle = last.pre.activeHandle
    /\ isEditMode = last.pre.isEditMode

\* C16: zero or negative sizes handed in are rejected: no reachable state
\* has a frame dimension that is zero or negative, or a contentScale or
\* contentOffset that is NaN or infinite.
C16_DegenerateRejected ==
  /\ Gt(config.frame.width, N(0))
  /\ Gt(config.frame.height, N(0))
  /\ IsFinite(config.contentScale)
  /\ IsFinite(config.contentOffset.x)
  /\ IsFinite(config.contentOffset.y)

\* C17: the aspect-ratio lookup returns the table's ratio for a label of the
\* table and fails with InvalidAspectRatio for any other label (such as
\* "21:9"); it never substitutes a default ratio.
C17_LookupFailsFast ==
  (ret.done /\ call.fn = "getAspectRatioValue") =>
    IF call.aspectRatio \in AspectRatio
    THEN /\ ret.error = "none"
         /\ \E i \in DOMAIN ASPECT_RATIO_OPTIONS :
              /\ ASPECT_RATIO_OPTIONS[i].value = call.aspectRatio
              /\ ASPECT_RATIO_OPTIONS[i].ratio = ret.ratio
    ELSE ret.error = "InvalidAspectRatio"

\* the width of a resize call after the driving axis has been chosen and the
\* other one derived through the ratio, before any clamp
RatioAdjustedWidth(c) ==
  LET cur == c.currentDimensions
      dw  == IF c.corner \in {"top-left", "bottom-left"}
             THEN Neg(c.delta.x) ELSE c.delta.x
      dh  == IF c.corner \in {"top-left", "top-right"}
             THEN Neg(c.delta.y) ELSE c.delta.y
  IN  IF Gt(MathAbs(dw), MathAbs(dh))
      THEN Add(cur.width, dw)
      ELSE Mul(Add(cur.height, dh), getAspectRatioValue(c.aspectRatio))

\* C18: when the delta drives the ratio-adjusted width below minWidth = 100,
\* calculateProportionalResize returns exactly width = 100 and
\* height = 100 / ratio.
C18_WidthClampExact ==
  (ret.done /\ call.fn = "calculateProportionalResize"
     /\ Lt(RatioAdjustedWidth(call), N(100)))
    => /\ ret.value.width = N(100)
       /\ ret.value.height = Div(N(100), getAspectRatioValue(call.aspectRatio))

\* a landscape frame dragged below the minimum from its top-left corner:
\* the height ends below the height minimum, at 100 / ratio
C18_Witness ==
  /\ ret.done
  /\ call.fn = "calculateProportionalResize"
  /\ call.corner = "top-left"
  /\ call.aspectRatio = "16:9"
  /\ Lt(RatioAdjustedWidth(call), N(100))
  /\ ret.value = [width |-> N(100), height |-> Norm(225, 4)]

\* the scaled content, placed at contentOffset, contains the whole frame
ContentCoversFrame(cfg) ==
  /\ Le(cfg.contentOffset.x, N(0))
  /\ Le(cfg.contentOffset.y, N(0))
  /\ Ge(Add(cfg.contentOffset.x, Mul(cfg.content.width, cfg.contentScale)),
        cfg.frame.width)
  /\ Ge(Add(cfg.contentOffset.y, Mul(cfg.content.height, cfg.contentScale)),
        cfg.frame.height)

\* C19: right after setAspectRatio, updateResize (while resizing) or
\* initializeFrame the scaled content at contentOffset contains the frame,
\* with offset 0 on an exactly fitted axis, and the placement is the
\* centered coverage placement whatever pan or zoom came before.
C19_CenteredCoverage ==
  (Acted("setAspectRatio") \/ Acted("updateResize") \/ Acted("initializeFrame")) =>
    LET scaledWidth  == Mul(config.content.width, config.contentScale)
        scaledHeight == Mul(config.content.height, config.contentScale)
    IN  /\ ContentCoversFrame(config)
        /\ scaledWidth = config.frame.width => config.contentOffset.x = N(0)
        /\ scaledHeight = config.frame.height => config.contentOffset.y = N(0)
        /\ config.contentScale = CoverageOf(config.content, config.frame)
        /\ Add(config.contentOffset.x, config.contentOffset.x)
             = Sub(config.frame.width, scaledWidth)
        /\ Add(config.contentOffset.y, config.contentOffset.y)
             = Sub(config.frame.height, scaledHeight)

\* a pan that left a gap was replaced by setAspectRatio: the content now
\* overflows on x and fits exactly on y
C19_Witness ==
  /\ Acted("setAspectRatio")
  /\ last.pre.config.contentOffset = Pt(25, 10)
  /\ ~ContentCoversFrame(last.pre.config)
  /\ Lt(config.contentOffset.x, N(0))
  /\ config.contentOffset.y = N(0)

\* C20: panning (and zooming) the content in edit mode never exposes empty
\* space: after updateContentPosition or updateContentScale in edit mode the
\* scaled content at contentOffset still contains the frame.
C20_PanNeverExposesGap ==
  (last.op \in {"updateContentPosition", "updateContentScale"} /\ isEditMode)
    => ContentCoversFrame(config)

\* C21: resetFrame, called in any state, yields exactly the default state,
\* and an updateResize that follows it without a new startResize changes
\* nothing.
C21_ResetFrame ==
  /\ [](last.op = "resetFrame" =>
          /\ config = [frame         |-> [width |-> N(400), height |-> N(300)],
                       position      |-> [x |-> N(0), y |-> N(0)],
                       aspectRatio   |-> "4:3",
                       content       |-> [width |-> N(800), height |-> N(600)],
                       contentOffset |-> [x |-> N(0), y |-> N(0)],
                       contentScale  |-> N(1)]
          /\ isResizing = FALSE
          /\ activeHandle = null
          /\ isEditMode = FALSE)
  /\ [][(last.op = "resetFrame" /\ last'.op = "updateResize")
          => /\ config' = config
             /\ isResizing' = FALSE
             /\ activeHandle' = null
             /\ isEditMode' = FALSE]_vars

\* a reset in edit mode, in the middle of a resize that had changed the frame
C21_Witness ==
  /\ last.op = "resetFrame"
  /\ last.pre.isResizing
  /\ last.pre.isEditMode
  /\ last.pre.config.frame # Dim(400, 300)
  /\ config = DEFAULT_CONFIG
  /\ ~isResizing

\* C22: the stored numbers round-trip through the geometry engine:
\* calculateFrameDimensions(aspectRatio, frame.width, frame.height) gives
\* the stored frame back, and max(contentScale, coverageScale(content,
\* frame)) is the stored contentScale.
C22_RoundTrip ==
  /\ calculateFrameDimensions(config.aspectRatio, config.frame.width,
                              config.frame.height) = config.frame
  /\ MathMax(config.contentScale, CoverageOf(config.content, config.frame))
       = config.contentScale

\* a resized frame on a ratio other than the default, zoomed above coverage
C22_Witness ==
  /\ Acted("updateContentScale")
  /\ config.aspectRatio # "4:3"
  /\ config.frame.width # last.pre.config.content.width
  /\ Gt(config.contentScale, CoverageOf(config.content, config.frame))

\* C26: in calculateProportionalResize, when the ratio-adjusted height is
\* below minHeight and the ratio-adjusted width is not below minWidth, the
\* result is height = minHeight and width = minHeight * ratio, also when the
\* ratio-adjusted width equals minWidth.
C26_HeightClampRecomputesWidth ==
  (ret.done /\ call.fn = "calculateProportionalResize") =>
    LET ratio == getAspectRatioValue(call.aspectRatio)
        w1 == RatioAdjustedWidth(call)
        h1 == Div(w1, ratio)
    IN  (Lt(h1, N(100)) /\ Ge(w1, N(100)))
          => /\ ret.value.height = N(100)
             /\ ret.value.width = Mul(N(100), ratio)

\* C27: updateResize with delta (0,0) while resizing leaves frame and
\* position as they were.
C27_ZeroDeltaNoOp ==
  (Acted("updateResize") /\ last.args = <<[x |-> N(0), y |-> N(0)]>>) =>
    /\ config.frame = last.pre.config.frame
    /\ config.position = last.pre.config.position

\* both runs of the gesture have made all their calls
PairDone ==
  /\ runA.pc = GestureLen
  /\ runB.pc = 3 * GestureLen - 2

\* C25: updateResize depends only on the current config, the active handle
\* and the delta: the run with endResize; startResize(same corner) between
\* its updateResize calls ends in the same config as the run without.
C25_GestureStartIrrelevant ==
  PairDone => runA.store.config = runB.store.config

\* both runs are through, every delta moved the frame
C25_Witness ==
  /\ PairDone
  /\ \A i \in 1..GestureLen : gesture.deltas[i] # [x |-> N(0), y |-> N(0)]
  /\ runB.store.config.frame # gesture.start.frame
  /\ runB.store.config.position # gesture.start.position
  /\ runB.store.activeHandle = gesture.corner

\* C28: while a drag is in progress updateDrag sets x and y to the
\* drag-start snapshot plus the pointer displacement since startDrag and
\* leaves scale (and everything else) as it currently is; with no drag in
\* progress updateDrag changes nothing.
C28_DragKeepsCurrentScale ==
  hookLast.op = "updateDrag" =>
    LET pre == hookLast.pre
        p   == hookLast.args[1]
    IN  IF pre.isDragging /\ pre.dragStartPos # None
        THEN /\ hook.contentTransform.x
                  = Add(pre.initialTransform[1].x, Sub(p.x, pre.dragStartPos[1].x))
             /\ hook.contentTransform.y
                  = Add(pre.initialTransform[1].y, Sub(p.y, pre.dragStartPos[1].y))
             /\ hook.contentTransform.scale = pre.contentTransform.scale
             /\ [hook EXCEPT !.contentTransform = pre.contentTransform] = pre
        ELSE hook = pre

\* C24: after any sequence of updateFrame, updateContentTransform and
\* resetContentTransform an ImageFrame object has contentScale >=
\* calculateMinimumScale(): the scaled image covers the frame on both axes.
C24_ClassKeepsCoverage ==
  frameLast.op \in {"updateFrame", "updateContentTransform",
                    "resetContentTransform"} =>
    /\ Ge(imageFrame.contentScale, ImageFrame_calculateMinimumScale(imageFrame))
    /\ Ge(Mul(imageFrame.width, imageFrame.contentScale), imageFrame.frameWidth)
    /\ Ge(Mul(imageFrame.height, imageFrame.contentScale), imageFrame.frameHeight)

\* C23: a press enters edit mode exactly when a first press opened the
\* double-click window less than 300 ms before it and no press since then
\* closed it; any other press is a first press and starts the 300 ms
\* timer.  Between events clickCount is 0 or 1 and a timer is pending
\* exactly while it is 1.
C23_DoubleClick ==
  /\ dblClick.clickCount \in {0, 1}
  /\ (dblClick.clickTimer > 0) <=> (dblClick.clickCount = 1)
  /\ cropLast.op = "mousedown" =>
       /\ cropLast.detected <=> (cropLast.pre.firstPressAge >= 0)
       /\ cropLast.detected =>
            /\ isImageInEditMode(activeObj)
            /\ dblClick = [clickCount |-> 0, clickTimer |-> 0]
       /\ ~cropLast.detected =>
            /\ isImageInEditMode(activeObj) = isImageInEditMode(cropLast.pre.image)
            /\ dblClick = [clickCount |-> 1, clickTimer |-> 300]
  /\ cropLast.op = "elapse" =>
       isImageInEditMode(activeObj) = isImageInEditMode(cropLast.pre.image)

\* the second press came 200 ms after the first and entered edit mode
C23_Witness ==
  /\ cropLast.op = "mousedown"
  /\ cropLast.detected
  /\ cropLast.pre.firstPressAge = 200
  /\ ~isImageInEditMode(cropLast.pre.image)
  /\ isImageInEditMode(activeObj)

\* the content scale stored on the image
StoredScale(img) ==
  currentTransformOf(img).scale

\* C29: a mouse move that pans (drag active, image in edit mode) leaves the
\* image's scaleX and scaleY and the stored content scale as they were; a
\* mouse move outside edit mode or without a drag changes nothing.
C29_PanKeepsScale ==
  cropLast.op = "mousemove" =>
    LET pre == cropLast.pre
    IN  IF pre.panning.isDragging /\ isImageInEditMode(pre.image)
        THEN /\ activeObj.scaleX = pre.image.scaleX
             /\ activeObj.scaleY = pre.image.scaleY
             /\ StoredScale(activeObj) = StoredScale(pre.image)
        ELSE /\ activeObj = pre.image
             /\ panel = pre.panel
             /\ panning = pre.panning
             /\ dblClick = pre.dblClick

\* C30: the panel's isEditModeActive equals the image's _editMode after any
\* sequence of double-click, Escape and Reset Crop.
C30_PanelMatchesImage ==
  panel.isEditModeActive = isImageInEditMode(activeObj)

====
